---- MODULE Spec2Model ----
(***************************************************************************)
(* A model of the iq-agent delivery pipeline: JournaldMonitor.run,         *)
(* EventLogMonitor.event_callback/send_event, VitalsMonitor.run and        *)
(* ShellExecutor.run, with the tenacity stop_after_attempt policy each of  *)
(* them is wrapped in (or, for the vitals monitor, is not wrapped in).     *)
(*                                                                         *)
(* The agent is one thread of control.  A run operation is modelled from   *)
(* its call to its return; an action covers the code between two waits on  *)
(* the network (the answer to a GET or a POST is an input of the next      *)
(* action).  The services share no mutable state and the launcher that     *)
(* constructs them is not part of the sources, so a behaviour follows the  *)
(* service the process has built, one operation at a time: jm, em, vm and  *)
(* sx are the frames of the four operations and hold their initial value   *)
(* while the operation is not running.  d, log, cycle, jseen and done are  *)
(* history variables: what an observer of the wire and of the log file has *)
(* seen of the operation that runs now or ran last.                        *)
(***************************************************************************)
EXTENDS Integers, Sequences, FiniteSets, TLC

(* ------------------------------ bounds --------------------------------- *)

\* The largest attempt ceiling a monitor is constructed with.
MaxRetries == 3
\* The wall clock runs from 0 to MaxClock (seconds).
MaxClock == 1
\* The most commands one poll returns; command ids are 1..MaxCommands.
MaxCommands == 2
\* The most things that go wrong in one collection of the vitals.
MaxFaults == 1
\* The most entries that wait in the journal behind the one a wakeup reads.
MaxBacklog == 1
\* The longest key has and get are called with (characters).
MaxKeyLen == 3

(* -------------------------- program constants -------------------------- *)

\* retries=3, reply_retries=3: the constructors' default attempt ceiling.
DefaultRetries == 3
\* response.status != 201
Created == 201
\* response.status != 200 in ShellExecutor.poll
PollOk == 200

AccessToken == "token"
ClientId == "client-id"
ClientSecret == "private-key"
IngestUrl == "https://service/events/"
CommandUrl == "https://service/commands/"

(* ------------------------------ transport ------------------------------ *)

\* What the transport does with one request.  status 0: no response at all
\* (the call raises: connection error, timeout).  body is what
\* response.json() finds: a JSON object with a 'detail' member, a JSON
\* object without one, or bytes that are not JSON.
Responses ==
    {[status |-> 0, body |-> "none"], [status |-> Created, body |-> "nodetail"]}
    \cup [status : {PollOk, 500}, body : {"detail", "nodetail", "nonjson"}]

\* No response seen yet (history variables only).
NoResponse == [status |-> -1, body |-> "none"]

\* response.json(): raises on a body that is not JSON.
JsonRaises(resp) == resp.body = "nonjson"

\* error['detail']: raises KeyError when the member is missing.
DetailRaises(resp) == resp.body # "detail"

(* ------------------------------- tenacity ------------------------------ *)

\* A stop condition that lets one attempt more through than
\* stop_after_attempt does.
StopAfterAttemptOffByOne(max_attempt_number, attempt_number) ==
    attempt_number > max_attempt_number

\* stop_after_attempt(n): evaluated after a failed attempt, on the number of
\* attempts made so far (the first attempt is number 1).
StopAfterAttempt(max_attempt_number, attempt_number) ==
    attempt_number >= max_attempt_number

(* ------------------------------- security ------------------------------ *)

\* SecurityProvider.sign: base64 of the RSA-SHA256 signature of the payload
\* under the client secret; a symbolic signature, equal for equal payloads
\* and different for different ones.
sign(payload) == [alg |-> "sha256", key |-> ClientSecret, over |-> payload]

\* self._headers of a monitor or of the executor.
BaseHeaders ==
    [Authorization |-> "Bearer " \o AccessToken, ClientID |-> ClientId]

\* Headers whose Signature is that of an empty payload, not of the body.
RequestHeadersUnsigned(signature) ==
    [Authorization |-> BaseHeaders.Authorization,
     ClientID      |-> BaseHeaders.ClientID,
     ContentType   |-> "application/json",
     Signature     |-> sign(<<>>)]

\* headers = self._headers.copy(); headers['Content-Type'] = ...;
\* headers['Signature'] = signature
RequestHeaders(signature) ==
    [Authorization |-> BaseHeaders.Authorization,
     ClientID      |-> BaseHeaders.ClientID,
     ContentType   |-> "application/json",
     Signature     |-> signature]

\* session.post(url, headers=headers, data=payload): the request on the wire.
Request(url, headers, payload) ==
    [url |-> url, headers |-> headers, data |-> payload]

(* ------------------------------ conversions ---------------------------- *)

\* datetime.isoformat() of the instant t seconds after the epoch, 0 <= t <= 9.
IsoFormat(t) == "1970-01-01T00:00:0" \o ToString(t)

\* str.lower() on the field names of a journal entry and on the member
\* names of an event-log record; a name that is lower case already is
\* left as it is.
Lower(name) ==
    CASE name = "MESSAGE" -> "message"
      [] name = "PRIORITY" -> "priority"
      [] name = "_PID" -> "_pid"
      [] name = "__REALTIME_TIMESTAMP" -> "__realtime_timestamp"
      [] name = "ClosingRecordNumber" -> "closingrecordnumber"
      [] name = "Data" -> "data"
      [] name = "EventCategory" -> "eventcategory"
      [] name = "EventID" -> "eventid"
      [] name = "EventType" -> "eventtype"
      [] name = "RecordNumber" -> "recordnumber"
      [] name = "Reserved" -> "reserved"
      [] name = "ReservedFlags" -> "reservedflags"
      [] name = "Sid" -> "sid"
      [] name = "SourceName" -> "sourcename"
      [] name = "StringInserts" -> "stringinserts"
      [] name = "TimeGenerated" -> "timegenerated"
      [] name = "TimeWritten" -> "timewritten"
      [] OTHER -> name

\* Field values: a string, an integer, a datetime or None.
NoneValue == [type |-> "none", s |-> "", n |-> 0]
StrValue(s) == [type |-> "str", s |-> s, n |-> 0]
IntValue(n) == [type |-> "int", s |-> "", n |-> n]
DateValue(t) == [type |-> "datetime", s |-> "", n |-> t]

\* value.isoformat() for a datetime, str(value) otherwise.
ValueToString(value) ==
    CASE value.type = "datetime" -> IsoFormat(value.n)
      [] value.type = "int" -> ToString(value.n)
      [] value.type = "none" -> "None"
      [] OTHER -> value.s

\* LogEvent(...).model_dump_json().encode('utf-8'): event_date goes through
\* the field serializer (isoformat), the properties keep their order.
LogEventJson(event) ==
    [event_date |-> IsoFormat(event.event_date),
     source     |-> event.source,
     properties |-> event.properties]

(* ------------------------------- journal ------------------------------- *)

\* A journal entry is a dict: its fields in iteration order.
Fld(name, value) == [name |-> name, value |-> value]

\* What self._reader.get_next() returns.
JournalEntries ==
    {[isNone |-> TRUE, fields |-> <<>>],
     [isNone |-> FALSE, fields |-> <<>>],
     [isNone |-> FALSE, fields |-> <<Fld("PRIORITY", IntValue(3))>>],
     [isNone |-> FALSE, fields |-> <<Fld("MESSAGE", StrValue(""))>>],
     [isNone |-> FALSE,
      fields |-> <<Fld("MESSAGE", StrValue("a")), Fld("PRIORITY", IntValue(3))>>],
     [isNone |-> FALSE,
      fields |-> <<Fld("_PID", IntValue(7)), Fld("MESSAGE", StrValue("a"))>>],
     [isNone |-> FALSE,
      fields |-> <<Fld("PRIORITY", IntValue(2)), Fld("MESSAGE", StrValue("b")),
                   Fld("__REALTIME_TIMESTAMP", DateValue(1))>>]}

\* The non-empty MESSAGE texts of JournalEntries.
Messages == {"a", "b"}

\* 'MESSAGE' in entry
HasField(entry, name) ==
    \E i \in 1..Len(entry.fields) : entry.fields[i].name = name

\* entry['MESSAGE']
FieldOf(entry, name) ==
    LET i == CHOOSE k \in 1..Len(entry.fields) : entry.fields[k].name = name
    IN entry.fields[i].value

\* A to_log_event that takes the fields last to first.
to_log_event_reversed(entry, event_date) ==
    [event_date |-> event_date,
     source     |-> "journald",
     properties |-> [i \in 1..Len(entry.fields) |->
                       LET f == entry.fields[Len(entry.fields) + 1 - i]
                       IN [name  |-> Lower(f.name),
                           value |-> ValueToString(f.value)]]]

\* JournaldMonitor.to_log_event: one property per field, in iteration order,
\* the name lower-cased and the value rendered as a string.
to_log_event(entry, event_date) ==
    [event_date |-> event_date,
     source     |-> "journald",
     properties |-> [i \in 1..Len(entry.fields) |->
                       [name  |-> Lower(entry.fields[i].name),
                        value |-> ValueToString(entry.fields[i].value)]]]

\* The events select.poll() reports for the journal descriptor.
PollEvents == {{"POLLIN"}, {"POLLHUP"}, {"POLLIN", "POLLHUP"}}

\* The body of one attempt of JournaldMonitor.run, given the transport's
\* answer: whether it raises, and whether it logs the failure.
JournalAttempt(resp) ==
    IF resp.status = 0 THEN [raised |-> TRUE, logged |-> FALSE]
    ELSE IF resp.status # Created
         THEN IF JsonRaises(resp) \/ DetailRaises(resp)
              THEN [raised |-> TRUE, logged |-> FALSE]
              ELSE [raised |-> FALSE, logged |-> TRUE]
         ELSE [raised |-> FALSE, logged |-> FALSE]

(* ------------------------------ event log ------------------------------ *)

\* The members of a PyEventLogRecord that EventLogMonitor.to_log_event keeps.
EventLogMembers ==
    {"ClosingRecordNumber", "Data", "EventCategory", "EventID", "EventType",
     "RecordNumber", "Reserved", "ReservedFlags", "Sid", "SourceName",
     "TimeGenerated", "TimeWritten"}

\* The members of the PyEventLogRecord number n, written at time t with
\* the insert ins, in dir() order (sorted): the twelve of the allow-list and
\* StringInserts, which to_log_event leaves out.  The record has no data
\* and no user.
RecordMembers(n, t, ins) ==
    <<Fld("ClosingRecordNumber", IntValue(0)), Fld("Data", NoneValue),
      Fld("EventCategory", IntValue(0)), Fld("EventID", IntValue(7)),
      Fld("EventType", IntValue(1)), Fld("RecordNumber", IntValue(n)),
      Fld("Reserved", IntValue(0)), Fld("ReservedFlags", IntValue(0)),
      Fld("Sid", NoneValue), Fld("SourceName", StrValue("disk")),
      Fld("StringInserts", StrValue(ins)), Fld("TimeGenerated", DateValue(t)),
      Fld("TimeWritten", DateValue(t))>>

\* An event-log record: its members, and the text SafeFormatMessage renders
\* for it.
EventRecords ==
    {[message |-> "disk failure", members |-> RecordMembers(1, 0, "sda")],
     [message |-> "disk failure", members |-> RecordMembers(2, 1, "sdb")]}

\* What win32evtlog.ReadEventLog returns for the record id: nothing, or the
\* record.
ReadResults == {<<>>} \cup {<<r>> : r \in EventRecords}

\* The event the subscription renders: whether its XML has an EventRecordID
\* element, and the text of its Level element.
RenderedEvents == [hasRecordId : BOOLEAN, level : {"1", "2"}]

\* The actions the subscription calls the callback with.
SubscribeActions == {"EvtSubscribeActionDeliver", "EvtSubscribeActionError"}

RECURSIVE KeptMembers(_)
\* The loop of EventLogMonitor.to_log_event over dir(entry): the members of
\* the allow-list, in order, as properties.
KeptMembers(members) ==
    IF members = <<>> THEN <<>>
    ELSE LET m == Head(members)
             rest == KeptMembers(Tail(members))
         IN IF m.name \in EventLogMembers
            THEN <<[name |-> Lower(m.name), value |-> ValueToString(m.value)]>>
                 \o rest
            ELSE rest

\* EventLogMonitor.to_log_event
event_to_log_event(entry, message, level, event_date) ==
    [event_date |-> event_date,
     source     |-> "journald",
     properties |-> <<[name |-> "message", value |-> message],
                      [name |-> "priority", value |-> level]>>
                    \o KeptMembers(entry.members)]

\* The body of one attempt of EventLogMonitor.send_event.
EventLogAttempt(resp) ==
    IF resp.status = 0 THEN [raised |-> TRUE, logged |-> FALSE]
    ELSE IF resp.status # Created
         THEN IF JsonRaises(resp)
              THEN [raised |-> TRUE, logged |-> FALSE]
              ELSE [raised |-> TRUE, logged |-> TRUE]
         ELSE [raised |-> FALSE, logged |-> FALSE]

(* -------------------------------- vitals ------------------------------- *)

\* The probes collect_vitals calls while it builds its dictionary, in the
\* order of the calls.
Probes ==
    <<"system_info", "boot_time", "cpu_info", "memory_info", "swap_info",
      "disk_info", "network_info">>

\* The commands collect_vitals asks has_command for, in the order of the
\* calls.
PackageCommands == <<"pip", "dpkg", "rpm">>

\* The key collect_vitals puts the packages of a command under.
PackageKey(cmd) ==
    CASE cmd = "pip" -> "python_packages"
      [] cmd = "dpkg" -> "deb_packages"
      [] OTHER -> "rpm_packages"

\* The key a package probe returns its exception under.
PackageError(cmd) ==
    CASE cmd = "pip" -> "pip_error"
      [] cmd = "dpkg" -> "dpkg_error"
      [] OTHER -> "rpm_error"

\* What running `cmd --version` comes to on a host: it exits with 0
\* ("present"); it is not found or exits with another status ("absent");
\* or it cannot be executed ("denied", a PermissionError).
CommandStates == {"present", "absent", "denied"}

\* A host: the state of each command.
Hosts == [{PackageCommands[i] : i \in 1..Len(PackageCommands)} -> CommandStates]

\* VitalsMonitor.has_command: True or False, or the exception that is
\* neither CalledProcessError nor FileNotFoundError.
has_command(host, cmd) ==
    [raised |-> host[cmd] = "denied", value |-> host[cmd] = "present"]

\* What can go wrong in one collection: a probe raises (cpu_freq() returns
\* None, the host name does not resolve, ...; get_disk_info when
\* disk_io_counters() returns None, after its loop over the partitions), or
\* the listing of the packages of a command fails.
Faults ==
    {Probes[i] : i \in 1..Len(Probes)}
      \cup {PackageKey(PackageCommands[i]) : i \in 1..Len(PackageCommands)}

\* The faults of one collection: at most MaxFaults at a time.
FaultSets == {f \in SUBSET Faults : Cardinality(f) <= MaxFaults}

\* psutil.disk_partitions(): the mount points, in the order it lists them.
Partitions == <<"/", "/boot", "/data">>

\* The sets of mount points for which psutil.disk_usage raises
\* PermissionError.
DeniedSets == SUBSET {Partitions[i] : i \in 1..Len(Partitions)}

\* A get_disk_info that gives up the partitions when one is denied.
get_disk_info_all_or_none(partitions, denied) ==
    [partitions |-> IF denied = {} THEN [i \in 1..Len(partitions) |->
                                           [mountpoint |-> partitions[i],
                                            usage |-> "collected"]]
                    ELSE <<>>,
     disk_io |-> "collected"]

\* VitalsMonitor.get_disk_info: one entry for each partition whose usage
\* can be read, in the order of the partitions, and the I/O counters.
get_disk_info(partitions, denied) ==
    [partitions |-> [i \in 1..Len(SelectSeq(partitions,
                                            LAMBDA m : m \notin denied)) |->
                       [mountpoint |-> SelectSeq(partitions,
                                                 LAMBDA m : m \notin denied)[i],
                        usage |-> "collected"]],
     disk_io |-> "collected"]

\* The sections of the vitals: what a probe returned.
Section(text) == [partitions |-> <<>>, disk_io |-> text]

\* The probes collect_vitals calls before the probe p.
Before(p) ==
    {Probes[i] : i \in {k \in 1..Len(Probes) :
                          \E j \in 1..Len(Probes) : Probes[j] = p /\ k < j}}

\* VitalsMonitor.get_installed_python_packages, get_installed_deb_packages
\* and get_installed_rpm_packages: the list of the packages, or the
\* exception of the listing under the command's error key.
get_installed_packages(cmd, faults) ==
    IF PackageKey(cmd) \in faults THEN Section(PackageError(cmd))
    ELSE Section("collected")

\* VitalsMonitor.collect_vitals.  Only get_disk_info (for a partition) and
\* the package probes catch anything: any other probe that raises ends the
\* collection with its exception, and so does a has_command that raises.  A
\* listing that fails is logged and leaves its error under the command's
\* key; get_disk_info logs the exception of every partition it passes over,
\* when the collection comes to it.
collect_vitals(faults, host, denied) ==
    LET failing == {i \in 1..Len(Probes) : Probes[i] \in faults}
        commands == 1..Len(PackageCommands)
        refused == {i \in commands :
                      has_command(host, PackageCommands[i]).raised}
        listed == {i \in commands :
                     /\ has_command(host, PackageCommands[i]).value
                     /\ \A k \in refused : i < k}
        keys == {Probes[i] : i \in 1..Len(Probes)}
                  \cup {PackageKey(PackageCommands[i]) : i \in listed}
        skipped == IF /\ denied # {}
                      /\ \A i \in failing : Probes[i] \notin Before("disk_info")
                   THEN {"exception"} ELSE {}
        logged == skipped \cup
                  (IF \E i \in listed : PackageKey(PackageCommands[i]) \in faults
                   THEN {"exception"} ELSE {})
    IN IF failing # {}
       THEN [raised |-> TRUE,
             probe |-> Probes[CHOOSE i \in failing : \A k \in failing : i <= k],
             info |-> <<>>, logged |-> skipped]
       ELSE IF refused # {}
       THEN [raised |-> TRUE, probe |-> "has_command", info |-> <<>>,
             logged |-> logged]
       ELSE [raised |-> FALSE,
             probe |-> "none",
             info |-> [k \in keys |->
                         IF k = "disk_info"
                         THEN get_disk_info(Partitions, denied)
                         ELSE IF \E i \in listed :
                                   PackageKey(PackageCommands[i]) = k
                         THEN get_installed_packages(
                                PackageCommands[CHOOSE i \in listed :
                                  PackageKey(PackageCommands[i]) = k], faults)
                         ELSE Section("collected")],
             logged |-> logged]

\* The inputs of one collection.  At most MaxFaults things go wrong in it,
\* counting the probes and listings that fail, the partitions that are
\* denied and the commands that cannot be executed.  Each input is given as
\* far as the collection reads it: what comes after the exception that ends
\* the collection (the commands after a has_command that raises, the
\* commands when a probe raises, the partitions' usage when a probe before
\* get_disk_info raises) and the listing of a command that is not there are
\* not read, and are left at "absent", no partition denied and no fault.
Collections ==
    {c \in [faults : FaultSets, host : Hosts, denied : DeniedSets] :
       LET commands == 1..Len(PackageCommands)
           refused == {i \in commands : c.host[PackageCommands[i]] = "denied"}
           listed == {i \in commands :
                        /\ c.host[PackageCommands[i]] = "present"
                        /\ \A k \in refused : i < k}
           probes == {Probes[i] : i \in 1..Len(Probes)}
       IN /\ Cardinality(c.faults) + Cardinality(c.denied)
                + Cardinality(refused) <= MaxFaults
          /\ \A i \in commands, k \in refused :
                i > k => c.host[PackageCommands[i]] = "absent"
          /\ c.faults \ probes
                \subseteq {PackageKey(PackageCommands[i]) : i \in listed}
          /\ c.faults \cap probes # {} =>
                /\ c.faults \cap Before("disk_info") # {} => c.denied = {}
                /\ c.faults \subseteq probes
                /\ \A i \in commands : c.host[PackageCommands[i]] = "absent"}

\* VitalsEvent(vitals=json.dumps(vitals)).model_dump_json().encode('utf-8')
VitalsEventJson(vitals) == [vitals |-> vitals]

\* The body of VitalsMonitor.run after the POST: whether it raises, and
\* whether it logs the failure.
VitalsAttempt(resp) ==
    IF resp.status = 0 THEN [raised |-> TRUE, logged |-> FALSE]
    ELSE IF resp.status # Created
         THEN IF JsonRaises(resp) \/ DetailRaises(resp)
              THEN [raised |-> TRUE, logged |-> FALSE]
              ELSE [raised |-> FALSE, logged |-> TRUE]
         ELSE [raised |-> FALSE, logged |-> FALSE]

(* ------------------------------- executor ------------------------------ *)

CommandIds == 1..MaxCommands

RECURSIVE SeqsOver(_, _)
\* The sequences over S of length at most n that list each element at most
\* once, in ascending order (the ids are labels: a poll that lists the same
\* commands in another order is this one with the labels exchanged).
SeqsOver(S, n) ==
    IF n = 0 THEN {<<>>}
    ELSE {<<>>} \cup UNION {{<<x>> \o t : t \in SeqsOver({y \in S : y > x}, n - 1)} :
                              x \in S}

\* A ServerCommand, as far as the executor reads it: its id and shell text.
Command(id) == [id |-> id, command |-> "cmd-" \o ToString(id)]

\* What the service answers to GET {url}?status=pending: no answer (0), or
\* a status (200, or another one) with a JSON array of commands as its body.
PollResponses ==
    {[status |-> 0, commands |-> <<>>]}
    \cup {[status |-> s, commands |-> [i \in 1..Len(ids) |-> Command(ids[i])]] :
            s \in {PollOk, 204, 500}, ids \in SeqsOver(CommandIds, MaxCommands)}

\* A poll that reads the body whatever the status is.
PollAnyStatus(resp) ==
    [raised |-> resp.status = 0, logged |-> FALSE, commands |-> resp.commands]

\* ShellExecutor.poll, given the answer to its GET: whether it raises (no
\* answer), whether it logs 'Failed to poll the service', and the commands
\* it returns.
Poll(resp) ==
    IF resp.status = 0
    THEN [raised |-> TRUE, logged |-> FALSE, commands |-> <<>>]
    ELSE IF resp.status # PollOk
         THEN [raised |-> FALSE, logged |-> TRUE, commands |-> <<>>]
         ELSE [raised |-> FALSE, logged |-> FALSE, commands |-> resp.commands]

\* The bytes a command writes: "", "ok", "err" and a byte that is not UTF-8.
NoBytes == <<>>
OkBytes == <<111, 107>>
ErrBytes == <<101, 114, 114>>
BadBytes == <<255>>

\* What subprocess.run(..., capture_output=True, check=False) returns.
ProcOutcomes ==
    {[returncode |-> 0, stdout |-> OkBytes, stderr |-> NoBytes],
     [returncode |-> 2, stdout |-> NoBytes, stderr |-> ErrBytes],
     [returncode |-> 0, stdout |-> BadBytes, stderr |-> NoBytes],
     [returncode |-> 2, stdout |-> NoBytes, stderr |-> BadBytes]}

\* A byte sequence is UTF-8 when every byte is ASCII (the model's bytes are
\* ASCII or 0xFF, which no UTF-8 text contains).
Utf8Valid(bytes) == \A i \in 1..Len(bytes) : bytes[i] < 128

Chr(b) ==
    CASE b = 111 -> "o" [] b = 107 -> "k" [] b = 101 -> "e" [] b = 114 -> "r"
      [] OTHER -> "?"

RECURSIVE DecodeUtf8(_)
\* bytes -> str, as pydantic validates a str field given bytes.
DecodeUtf8(bytes) ==
    IF bytes = <<>> THEN "" ELSE Chr(Head(bytes)) \o DecodeUtf8(Tail(bytes))

NoResult ==
    [raised |-> FALSE, start_date |-> 0, end_date |-> 0, total_time |-> 0,
     exit_code |-> 0, stdout |-> "", stderr |-> ""]

\* ShellExecutor.execute, given what the process did, the clock before it
\* started and after it ended: the ServerCommandResult, or raised when the
\* model's validation of a str field rejects the captured bytes.
Execute(proc, start, end) ==
    IF ~Utf8Valid(proc.stdout) \/ ~Utf8Valid(proc.stderr)
    THEN [NoResult EXCEPT !.raised = TRUE]
    ELSE [raised     |-> FALSE,
          start_date |-> start,
          end_date   |-> end,
          total_time |-> end - start,
          exit_code  |-> proc.returncode,
          stdout     |-> DecodeUtf8(proc.stdout),
          stderr     |-> DecodeUtf8(proc.stderr)]

\* ServerCommandResult.model_dump_json().encode('utf-8')
ResultJson(result) ==
    [start_date |-> IsoFormat(result.start_date),
     end_date   |-> IsoFormat(result.end_date),
     total_time |-> result.total_time,
     exit_code  |-> result.exit_code,
     stdout     |-> result.stdout,
     stderr     |-> result.stderr]

\* f'{self._url}{command.id}/result/'
ResultUrl(command) == CommandUrl \o ToString(command.id) \o "/result/"

\* The body of one attempt of ShellExecutor.run.
ShellAttempt(resp) ==
    IF resp.status = 0 THEN [raised |-> TRUE, logged |-> FALSE]
    ELSE IF resp.status # Created
         THEN IF JsonRaises(resp) \/ DetailRaises(resp)
              THEN [raised |-> TRUE, logged |-> FALSE]
              ELSE [raised |-> FALSE, logged |-> TRUE]
         ELSE [raised |-> FALSE, logged |-> FALSE]

(* ---------------------------- configuration ---------------------------- *)

\* The values of a settings tree as toml.load returns them: a table (dict),
\* an integer, a boolean, a string (its characters) or an array of strings.
\* A name, like a string, is the sequence of its characters.
NoItems == [name \in {} |-> 0]
Table(items) ==
    [type |-> "table", n |-> 0, chars |-> <<>>, elems |-> {}, items |-> items]
IntNode(n) ==
    [type |-> "int", n |-> n, chars |-> <<>>, elems |-> {}, items |-> NoItems]
BoolNode(b) ==
    [type |-> "bool", n |-> IF b THEN 1 ELSE 0, chars |-> <<>>, elems |-> {},
     items |-> NoItems]
StrNode(chars) ==
    [type |-> "str", n |-> 0, chars |-> chars, elems |-> {}, items |-> NoItems]
ListNode(elems) ==
    [type |-> "list", n |-> 0, chars |-> <<>>, elems |-> elems,
     items |-> NoItems]

\* {name: value} and {name1: value1, name2: value2}
Table1(name, value) == Table([k \in {name} |-> value])
Table2(name1, value1, name2, value2) ==
    Table([k \in {name1, name2} |-> IF k = name1 THEN value1 ELSE value2])

\* The settings trees a file is loaded into.
Trees ==
    {Table(NoItems),
     Table1(<<"a">>, IntNode(0)),
     Table1(<<"a">>, BoolNode(FALSE)),
     Table1(<<"a">>, StrNode(<<>>)),
     Table1(<<"a">>, StrNode(<<"b">>)),
     Table1(<<"a">>, ListNode({<<"b">>})),
     Table1(<<"a">>, Table(NoItems)),
     Table1(<<"a">>, Table1(<<"b">>, IntNode(0))),
     Table2(<<"a">>, Table1(<<"b">>, StrNode(<<>>)), <<"b">>, IntNode(1))}

\* The keys has and get are called with: texts over a, b and the dot.
KeyChars == {"a", "b", "."}
Keys == UNION {[1..n -> KeyChars] : n \in 0..MaxKeyLen}

\* key.split('.')
RECURSIVE Split(_)
Split(key) ==
    IF \A i \in 1..Len(key) : key[i] # "."
    THEN <<key>>
    ELSE LET i == CHOOSE k \in 1..Len(key) :
                    key[k] = "." /\ \A j \in 1..(k - 1) : key[j] # "."
         IN <<SubSeq(key, 1, i - 1)>> \o Split(SubSeq(key, i + 1, Len(key)))

\* `part not in data` raises TypeError when data is an integer or a boolean.
InRaises(data) == data.type \in {"int", "bool"}

\* `part in data`: a key of a dict, a substring of a str, an element of a
\* list.
In(part, data) ==
    CASE data.type = "table" -> part \in DOMAIN data.items
      [] data.type = "str" ->
           \E i \in 1..(Len(data.chars) + 1) :
              /\ i + Len(part) - 1 <= Len(data.chars)
              /\ SubSeq(data.chars, i, i + Len(part) - 1) = part
      [] data.type = "list" -> part \in data.elems
      [] OTHER -> FALSE

\* The loop of has and of get over the parts of the key: it ends by a
\* return at a part that is not in data, by an exception (TypeError: the
\* membership test on a number, or data[part] on a str or a list), or past
\* the last part with data the value at the key.
RECURSIVE Walk(_, _)
Walk(data, parts) ==
    IF parts = <<>>
    THEN [raised |-> FALSE, found |-> TRUE, data |-> data]
    ELSE IF InRaises(data)
         THEN [raised |-> TRUE, found |-> FALSE, data |-> data]
         ELSE IF ~In(Head(parts), data)
              THEN [raised |-> FALSE, found |-> FALSE, data |-> data]
              ELSE IF data.type # "table"
                   THEN [raised |-> TRUE, found |-> FALSE, data |-> data]
                   ELSE Walk(data.items[Head(parts)], Tail(parts))

\* Configuration.has: what it returns, or that it raises.
has(data, key) ==
    LET w == Walk(data, Split(key))
    IN [raised |-> w.raised, value |-> ~w.raised /\ w.found]

\* Configuration.get: the value it returns, that it returns None, or that it
\* raises.
get(data, key) ==
    LET w == Walk(data, Split(key))
    IN [raised |-> w.raised,
        isNone |-> ~w.raised /\ ~w.found,
        value  |-> IF ~w.raised /\ w.found THEN w.data ELSE Table(NoItems)]

\* has or get has not been called.
NotCalled == [raised |-> FALSE, called |-> FALSE]

\* A TomlConfiguration before load.
NewConfiguration ==
    [loaded |-> FALSE, data |-> Table(NoItems), key |-> <<>>,
     has |-> NotCalled, get |-> NotCalled]

(* ------------------------------ variables ------------------------------ *)

VARIABLES
    built,     \* the services this process has constructed
    now,       \* the wall clock, datetime.now()
    retries,   \* the attempt ceiling of each retrying path
    jm,        \* the frame of JournaldMonitor.run
    em,        \* the frame of EventLogMonitor.event_callback .. send_event
    el,        \* the frame of EventLogMonitor.subscribe_system, and _running
    vm,        \* the frame of VitalsMonitor.run
    sx,        \* the frame of ShellExecutor.run
    d,         \* history: the delivery in progress or last ended
    log,       \* history: what the current operation has logged
    cycle,     \* history: the commands of the executor's current cycle
    jseen,     \* history: the messages the log monitor handed to delivery
    xseen,     \* history: the commands with a result the service has not accepted
    done,      \* history: the operation running now or run last
    turn,      \* the coroutine that holds the event loop's thread
    task,      \* where each task of the process is
    conf       \* a TomlConfiguration and the last calls of has and get on it

vars ==
    <<built, now, retries, jm, em, el, vm, sx, d, log, cycle, jseen, xseen,
      done, turn, task, conf>>

\* The variables of the delivery pipeline, which the other specifications
\* leave alone, and those of the other specifications, which the pipeline
\* leaves alone.
pipeline ==
    <<now, retries, jm, em, el, vm, sx, d, log, cycle, jseen, xseen, done>>
offstage == <<turn, task, conf>>

RetryingPaths == {"journal", "eventlog", "shell"}

Services == RetryingPaths \cup {"vitals"}

NoPayload == <<>>

NoEntry == [isNone |-> TRUE, fields |-> <<>>]

JournalIdle ==
    [pc |-> "idle", dedupe |-> {}, entry |-> NoEntry, message |-> "",
     payload |-> NoPayload, headers |-> BaseHeaders, attempt |-> 0]

EventLogIdle ==
    [pc |-> "idle", payload |-> NoPayload, headers |-> BaseHeaders,
     attempt |-> 0]

\* EventLogMonitor before subscribe_system is called: _running is set by
\* __init__; stop records that stop() has been called.
\* slept records that subscribe_system has waited in asyncio.sleep.
Unsubscribed ==
    [pc |-> "unsubscribed", running |-> TRUE, stop |-> FALSE, slept |-> FALSE]

\* prev: the snapshot run() has sent last, if any.
VitalsIdle ==
    [pc |-> "idle", payload |-> NoPayload, headers |-> BaseHeaders,
     denied |-> {}, prev |-> {}]

ShellIdle ==
    [pc |-> "idle", commands |-> <<>>, index |-> 0, result |-> NoResult,
     payload |-> NoPayload, headers |-> BaseHeaders, attempt |-> 0]

NoDelivery ==
    [path |-> "none", posts |-> 0, responses |-> 0, sent |-> {},
     all500 |-> TRUE, prev500 |-> TRUE, last |-> NoResponse, end |-> "none"]

NoCycle ==
    [status |-> -1, offered |-> 0, repeated |-> FALSE,
     polled |-> 0, executed |-> <<>>, attempted |-> <<>>, ends |-> <<>>,
     proc |-> [returncode |-> 0, stdout |-> NoBytes, stderr |-> NoBytes]]

\* The history of a delivery after its request number d.posts + 1 is sent.
Posted(dv, path, request) ==
    [dv EXCEPT !.path = path, !.posts = @ + 1, !.sent = @ \cup {request},
               !.end = "inflight"]

\* The history of a delivery after the answer resp, the delivery ending as
\* end ("inflight" when another attempt follows).
Answered(dv, resp, end) ==
    [dv EXCEPT !.responses = @ + 1, !.prev500 = dv.all500,
               !.all500 = dv.all500 /\ resp.status = 500,
               !.last = resp, !.end = end]

\* done: the operation, how it ended, where an exception that left it came
\* from, the journal monitor's dedupe set when run() returned, whether the
\* message it handed to delivery had been handed to delivery before, how
\* many entries the journal monitor read and how many of those available at
\* its wakeup it left unread.
Running(op) ==
    [op |-> op, result |-> "running", cause |-> "none", dedupe |-> {},
     duplicate |-> FALSE, read |-> 0, unread |-> 0]
Returned(op) == [Running(op) EXCEPT !.result = "returned"]
Raised(op, cause) == [Running(op) EXCEPT !.result = "raised", !.cause = cause]

\* A service that would be called while its last call is still running.
NeverBusy == TRUE

\* Every source would pass over what it has sent before.
DedupesAll(source) == TRUE

\* The sources with a dedupe check: JournaldMonitor.run has the only one.
Dedupes(source) == source = "journal"

\* No operation is in progress: a service is called again only after its
\* last call has returned or raised.  This is the caller's doing (the loop
\* that calls run(), the subscription that calls the callback), stated after
\* the specification's MonitorLoop, which processes an event synchronously
\* before it returns to wait.
Idle == done.result # "running"

Init ==
    /\ built \in {{s} : s \in Services}
    /\ now = 0
    /\ \E r \in 0..MaxRetries :
         retries = [q \in RetryingPaths |->
                      IF q \in built THEN r ELSE DefaultRetries]
    /\ jm = JournalIdle
    /\ em = EventLogIdle
    /\ el = Unsubscribed
    /\ vm = VitalsIdle
    /\ sx = ShellIdle
    /\ d = NoDelivery
    /\ log = {}
    /\ cycle = NoCycle
    /\ jseen = {}
    /\ xseen = {}
    /\ done = Returned("none")
    /\ turn = "none"
    /\ task = <<>>
    /\ conf = NewConfiguration

\* Time passes.
Tick ==
    /\ now < MaxClock
    /\ now' = now + 1
    /\ UNCHANGED <<built, retries, jm, em, el, vm, sx, d, log, cycle, jseen,
                   xseen, done>>
    /\ UNCHANGED offstage

(* ---------------------------- JournaldMonitor -------------------------- *)

\* A dedupe cache that is kept from one call of run() to the next.
KeptDedupe(seen) == seen

\* The dedupe cache run() starts with: a new, empty set, whatever earlier
\* calls have seen.
NewDedupe(seen) == {}

\* The entries one call of run() reads: one get_next() for the POLLIN event
\* of the one descriptor that is registered.
EntriesRead(events) == IF "POLLIN" \in events THEN 1 ELSE 0

\* A run() that delivers an entry whose MESSAGE is empty.
SkippedUnlessEmpty(entry, dedupe) ==
    \/ entry.isNone
    \/ ~HasField(entry, "MESSAGE")
    \/ FieldOf(entry, "MESSAGE").s \in dedupe

\* The entries run() passes over: None, no MESSAGE, an empty MESSAGE, a
\* MESSAGE in the dedupe cache.
Skipped(entry, dedupe) ==
    \/ entry.isNone
    \/ ~HasField(entry, "MESSAGE")
    \/ FieldOf(entry, "MESSAGE").s = ""
    \/ FieldOf(entry, "MESSAGE").s \in dedupe

\* A dedupe cache that takes the message only when the delivery completed.
DedupeAfterCompleted(dedupe, message, end) ==
    IF end = "completed" THEN dedupe \cup {message} ELSE dedupe

\* The dedupe cache after the delivery of message: dedupe.add comes after
\* the retry loop and its handler, whatever the delivery came to.
DedupeAfter(dedupe, message, end) == dedupe \cup {message}

\* JournaldMonitor.run, from the call to the first POST (or to the return
\* when nothing is readable or the entry is skipped).
JournalRun(events, entry, more) ==
    /\ "journal" \in built
    /\ Idle
    /\ entry.isNone => more = 0
    /\ LET dedupe == NewDedupe(jseen)
           readable == "POLLIN" \in events
           read == EntriesRead(events)
           ran(result) ==
               [result EXCEPT !.read = read,
                              !.unread = IF entry.isNone \/ ~readable THEN 0
                                         ELSE 1 + more - read]
       IN IF ~readable \/ Skipped(entry, dedupe)
          THEN /\ jm' = [JournalIdle EXCEPT
                           !.entry = IF readable THEN entry ELSE NoEntry]
               /\ d' = NoDelivery
               /\ jseen' = jseen
               /\ done' = ran([Returned("journal") EXCEPT !.dedupe = dedupe])
          ELSE LET message == FieldOf(entry, "MESSAGE").s
                   payload == LogEventJson(to_log_event(entry, now))
                   headers == RequestHeaders(sign(payload))
               IN /\ jm' = [pc |-> "posting", dedupe |-> dedupe,
                            entry |-> entry,
                            message |-> message, payload |-> payload,
                            headers |-> headers, attempt |-> 1]
                  /\ d' = Posted(NoDelivery, "journal",
                                 Request(IngestUrl, headers, payload))
                  /\ jseen' = jseen \cup {message}
                  /\ done' = ran([Running("journal") EXCEPT
                                     !.duplicate = message \in jseen])
    /\ log' = {}
    /\ cycle' = NoCycle
    /\ UNCHANGED <<built, now, retries, em, el, vm, sx, xseen>>
    /\ UNCHANGED offstage

\* JournaldMonitor.run, from the answer to a POST to the return, or to the
\* asyncio.sleep(0) AsyncRetrying awaits before the next attempt: run() gives
\* the thread back to the event loop with the answer taken and the next
\* POST not sent.
JournalResponse(resp) ==
    /\ jm.pc = "posting"
    /\ LET a == JournalAttempt(resp)
           finished(end, logged) ==
               /\ jm' = [JournalIdle EXCEPT !.entry = jm.entry,
                                            !.message = jm.message]
               /\ d' = Answered(d, resp, end)
               /\ log' = log \cup logged
               /\ done' = [done EXCEPT
                             !.result = "returned",
                             !.dedupe = DedupeAfter(jm.dedupe, jm.message, end)]
       IN IF ~a.raised
          THEN finished("completed", IF a.logged THEN {"error"} ELSE {})
          ELSE IF StopAfterAttempt(retries["journal"], jm.attempt)
               THEN finished("exhausted", {"retry_error"})
               ELSE /\ jm' = [jm EXCEPT !.pc = "sleeping", !.attempt = @ + 1]
                    /\ d' = Answered(d, resp, "inflight")
                    /\ UNCHANGED <<log, done>>
    /\ UNCHANGED <<built, now, retries, em, el, vm, sx, cycle, jseen, xseen>>
    /\ UNCHANGED offstage

\* JournaldMonitor.run, from the return of the sleep before a retry to the
\* POST of the next attempt.
JournalRetry ==
    /\ jm.pc = "sleeping"
    /\ jm' = [jm EXCEPT !.pc = "posting"]
    /\ d' = Posted(d, "journal", Request(IngestUrl, jm.headers, jm.payload))
    /\ UNCHANGED <<built, now, retries, em, el, vm, sx, log, cycle, jseen,
                   xseen, done>>
    /\ UNCHANGED offstage

(* ---------------------------- EventLogMonitor -------------------------- *)

\* A subscribe_system that sets _running before it enters its loop.
SubscribeRestarts ==
    /\ "eventlog" \in built
    /\ el.pc \in {"unsubscribed", "stopped"}
    /\ el' = [el EXCEPT !.pc = "sleeping", !.running = TRUE, !.slept = TRUE]
    /\ UNCHANGED <<built, now, retries, jm, em, vm, sx, d, log, cycle, jseen,
                   xseen, done>>
    /\ UNCHANGED offstage

\* EventLogMonitor.subscribe_system, from the call to the first sleep: the
\* subscription is made and the loop's condition is read for the first time
\* (and with _running false the call returns without a sleep).
Subscribe ==
    /\ "eventlog" \in built
    /\ el.pc \in {"unsubscribed", "stopped"}
    /\ el' = [el EXCEPT !.pc = IF el.running THEN "sleeping" ELSE "stopped",
                        !.slept = @ \/ el.running]
    /\ UNCHANGED <<built, now, retries, jm, em, vm, sx, d, log, cycle, jseen,
                   xseen, done>>
    /\ UNCHANGED offstage

\* subscribe_system, from the return of asyncio.sleep(1) to the next sleep
\* or to the return: the loop's condition is read once.
SubscribeWake ==
    /\ el.pc = "sleeping"
    /\ el' = [el EXCEPT !.pc = IF el.running THEN "sleeping" ELSE "stopped"]
    /\ UNCHANGED <<built, now, retries, jm, em, vm, sx, d, log, cycle, jseen,
                   xseen, done>>
    /\ UNCHANGED offstage

\* A stop() that also abandons the delivery in progress.
StopCancels ==
    /\ "eventlog" \in built
    /\ el.running
    /\ el' = [el EXCEPT !.running = FALSE, !.stop = TRUE]
    /\ em' = EventLogIdle
    /\ d' = IF d.end = "inflight" THEN [d EXCEPT !.end = "raised"] ELSE d
    /\ done' = IF done.result = "running" THEN Raised(done.op, "stop") ELSE done
    /\ UNCHANGED <<built, now, retries, jm, vm, sx, log, cycle, jseen, xseen>>
    /\ UNCHANGED offstage

\* EventLogMonitor.stop, called by the process at any time (a second call
\* changes nothing).
Stop ==
    /\ "eventlog" \in built
    /\ el' = [el EXCEPT !.running = FALSE, !.stop = TRUE]
    /\ UNCHANGED <<built, now, retries, jm, em, vm, sx, d, log, cycle, jseen,
                   xseen, done>>
    /\ UNCHANGED offstage

\* What send_event's handler of RetryError does to the monitor: it logs the
\* error and leaves _running as it is.
OnRetryError(m) == m

\* EventLogMonitor.event_callback -> get_event_by_record_id -> send_event,
\* from the subscription's call to the first POST (or to the return).
EventCallback(action, rendered, evtLogs) ==
    /\ "eventlog" \in built
    /\ el.pc = "sleeping"
    /\ Idle
    /\ LET found == /\ action = "EvtSubscribeActionDeliver"
                    /\ rendered.hasRecordId
                    /\ evtLogs # <<>>
       IN IF ~found
          THEN /\ em' = EventLogIdle
               /\ d' = NoDelivery
               /\ log' = IF /\ action = "EvtSubscribeActionDeliver"
                            /\ rendered.hasRecordId
                         THEN {"event_not_found"} ELSE {}
               /\ done' = Returned("eventlog")
               /\ UNCHANGED jseen
          ELSE IF Dedupes("eventlog") /\ evtLogs[1].message \in jseen
          THEN /\ em' = EventLogIdle
               /\ d' = NoDelivery
               /\ log' = {}
               /\ done' = [Returned("eventlog") EXCEPT !.duplicate = TRUE]
               /\ UNCHANGED jseen
          ELSE LET entry == event_to_log_event(evtLogs[1], evtLogs[1].message,
                                               rendered.level, now)
                   payload == LogEventJson(entry)
                   headers == RequestHeaders(sign(payload))
               IN /\ em' = [pc |-> "posting", payload |-> payload,
                            headers |-> headers, attempt |-> 1]
                  /\ d' = Posted(NoDelivery, "eventlog",
                                 Request(IngestUrl, headers, payload))
                  /\ log' = {}
                  /\ jseen' = jseen \cup {evtLogs[1].message}
                  /\ done' = [Running("eventlog") EXCEPT
                                !.duplicate = evtLogs[1].message \in jseen]
    /\ cycle' = NoCycle
    /\ UNCHANGED <<built, now, retries, jm, el, vm, sx, xseen>>
    /\ UNCHANGED offstage

\* EventLogMonitor.send_event, from the answer to a POST to the return, or
\* to the time.sleep(0) Retrying calls before the next attempt: the
\* callback's thread is in the sleep with the answer taken and the next POST
\* not sent.
EventLogResponse(resp) ==
    /\ em.pc = "posting"
    /\ LET a == EventLogAttempt(resp)
           logged == IF a.logged THEN {"error"} ELSE {}
       IN IF ~a.raised
          THEN /\ em' = EventLogIdle
               /\ d' = Answered(d, resp, "completed")
               /\ log' = log \cup logged
               /\ done' = Returned("eventlog")
               /\ UNCHANGED el
          ELSE IF StopAfterAttempt(retries["eventlog"], em.attempt)
               THEN /\ em' = EventLogIdle
                    /\ el' = OnRetryError(el)
                    /\ d' = Answered(d, resp, "exhausted")
                    /\ log' = log \cup logged \cup {"retry_error"}
                    /\ done' = Returned("eventlog")
               ELSE /\ em' = [em EXCEPT !.pc = "sleeping", !.attempt = @ + 1]
                    /\ d' = Answered(d, resp, "inflight")
                    /\ log' = log \cup logged
                    /\ UNCHANGED <<el, done>>
    /\ UNCHANGED <<built, now, retries, jm, vm, sx, cycle, jseen, xseen>>
    /\ UNCHANGED offstage

\* EventLogMonitor.send_event, from the return of the sleep before a retry
\* to the POST of the next attempt.
EventLogRetry ==
    /\ em.pc = "sleeping"
    /\ em' = [em EXCEPT !.pc = "posting"]
    /\ d' = Posted(d, "eventlog", Request(IngestUrl, em.headers, em.payload))
    /\ UNCHANGED <<built, now, retries, jm, el, vm, sx, log, cycle, jseen,
                   xseen, done>>
    /\ UNCHANGED offstage

(* ----------------------------- VitalsMonitor --------------------------- *)

\* VitalsMonitor.run, from the call to its POST: the vitals are collected,
\* serialized and signed once.
VitalsRun(faults, host, denied) ==
    /\ "vitals" \in built
    /\ Idle
    /\ \E vitals \in {collect_vitals(faults, host, denied)} :
       \E payload \in {VitalsEventJson(vitals.info)} :
       \E headers \in {RequestHeaders(sign(payload))} :
       /\ log' = vitals.logged
       /\ IF vitals.raised
          THEN /\ vm' = [VitalsIdle EXCEPT !.prev = vm.prev]
               /\ d' = NoDelivery
               /\ done' = Raised("vitals", "collect")
          ELSE IF Dedupes("vitals") /\ payload \in vm.prev
          THEN /\ vm' = [VitalsIdle EXCEPT !.prev = vm.prev]
               /\ d' = NoDelivery
               /\ done' = [Returned("vitals") EXCEPT !.duplicate = TRUE]
          ELSE /\ vm' = [pc |-> "posting", payload |-> payload,
                         headers |-> headers, denied |-> denied,
                         prev |-> {payload}]
               /\ d' = Posted(NoDelivery, "vitals",
                              Request(IngestUrl, headers, payload))
               /\ done' = [Running("vitals") EXCEPT
                             !.duplicate = payload \in vm.prev]
    /\ cycle' = NoCycle
    /\ UNCHANGED <<built, now, retries, jm, em, el, sx, jseen, xseen>>
    /\ UNCHANGED offstage

\* VitalsMonitor.run, from the answer to its POST to the return, or to the
\* exception that leaves run().
VitalsResponse(resp) ==
    /\ vm.pc = "posting"
    /\ LET a == VitalsAttempt(resp)
       IN IF a.raised
          THEN /\ d' = Answered(d, resp, "raised")
               /\ log' = log
               /\ done' = Raised("vitals", "delivery")
          ELSE /\ d' = Answered(d, resp, "completed")
               /\ log' = log \cup (IF a.logged THEN {"error"} ELSE {})
               /\ done' = Returned("vitals")
    /\ vm' = [VitalsIdle EXCEPT !.prev = vm.prev]
    /\ UNCHANGED <<built, now, retries, jm, em, el, sx, cycle, jseen, xseen>>
    /\ UNCHANGED offstage

(* ----------------------------- ShellExecutor --------------------------- *)

\* ShellExecutor.run, from the call to the GET of poll().
ShellRun ==
    /\ "shell" \in built
    /\ Idle
    /\ sx' = [ShellIdle EXCEPT !.pc = "polling"]
    /\ d' = NoDelivery
    /\ log' = {}
    /\ cycle' = NoCycle
    /\ done' = Running("shell")
    /\ UNCHANGED <<built, now, retries, jm, em, el, vm, jseen, xseen>>
    /\ UNCHANGED offstage

\* One turn of the for loop of ShellExecutor.run up to its first POST: the
\* command at position i is executed (the process does proc and takes dur
\* seconds), its result serialized, signed and sent.  When execute raises,
\* the exception leaves run().  cyc and dv are the histories so far; seen
\* holds the ids of the commands the executor made a result for in this or
\* an earlier cycle and the service did not answer 201 to, which it
\* therefore still lists as pending; cycle.repeated records that such a
\* command was executed again.
StartCommand(commands, i, proc, dur, cyc, dv, seen) ==
    LET command == commands[i]
        result == Execute(proc, now, now + dur)
        payload == ResultJson(result)
        headers == RequestHeaders(sign(payload))
        ran == [cyc EXCEPT !.polled = Len(commands),
                           !.executed = Append(@, command.id), !.proc = proc,
                           !.repeated = @ \/ command.id \in seen]
    IN /\ now' = now + dur
       /\ xseen' = IF result.raised THEN seen ELSE seen \cup {command.id}
       /\ IF result.raised
          THEN /\ sx' = ShellIdle
               /\ d' = dv
               /\ cycle' = ran
               /\ done' = Raised("shell", "execute")
          ELSE /\ sx' = [pc |-> "posting", commands |-> commands, index |-> i,
                         result |-> result, payload |-> payload,
                         headers |-> headers, attempt |-> 1]
               /\ d' = Posted(NoDelivery, "shell",
                              Request(ResultUrl(command), headers, payload))
               /\ cycle' = [ran EXCEPT !.attempted = Append(@, command.id)]
               /\ done' = Running("shell")

\* ShellExecutor.run, from the answer to the GET of poll() to the first POST
\* of the first command's result, or to the return.  cycle.status and
\* cycle.offered record the answer: its status and the commands in its body.
ShellPollResponse(resp) ==
    /\ sx.pc = "polling"
    /\ LET p == Poll(resp)
           cyc == [cycle EXCEPT !.status = resp.status,
                                !.offered = Len(resp.commands),
                                !.polled = Len(p.commands)]
       IN /\ log' = IF p.logged THEN {"poll_failed"} ELSE {}
          /\ IF p.raised
             THEN /\ sx' = ShellIdle
                  /\ cycle' = cyc
                  /\ done' = Raised("shell", "poll")
                  /\ UNCHANGED <<now, d, xseen>>
             ELSE IF p.commands = <<>>
                  THEN /\ sx' = ShellIdle
                       /\ cycle' = cyc
                       /\ done' = Returned("shell")
                       /\ UNCHANGED <<now, d, xseen>>
                  ELSE \E proc \in ProcOutcomes, dur \in 0..MaxClock :
                          /\ now + dur <= MaxClock
                          /\ StartCommand(p.commands, 1, proc, dur, cyc, d,
                                          xseen)
    /\ UNCHANGED <<built, retries, jm, em, el, vm, jseen>>
    /\ UNCHANGED offstage

\* `for command in commands`: the position after position i.
NextCommand(i) == i + 1

\* ShellExecutor.run, from the answer to a POST to the POST of the next
\* command's result, to the return, or to the asyncio.sleep(0) AsyncRetrying
\* awaits before the next attempt: run() gives the thread back to the event
\* loop with the answer taken and the next POST not sent.  cycle.ends
\* records how the retry loop of each result was left: "completed" by a 201,
\* "logged" by an answer that is not a 201 and was only logged, "exhausted"
\* by the RetryError of the last attempt.
ShellPostResponse(resp) ==
    /\ sx.pc = "posting"
    /\ LET a == ShellAttempt(resp)
           next(end, logged) ==
               LET cyc == [cycle EXCEPT
                             !.ends = Append(@, IF end = "completed" /\ a.logged
                                                THEN "logged" ELSE end)]
                   seen == IF resp.status = Created
                           THEN xseen \ {sx.commands[sx.index].id}
                           ELSE xseen
               IN /\ log' = log \cup logged
                  /\ IF sx.index < Len(sx.commands)
                     THEN \E proc \in ProcOutcomes, dur \in 0..MaxClock :
                             /\ now + dur <= MaxClock
                             /\ StartCommand(sx.commands,
                                             NextCommand(sx.index), proc, dur,
                                             cyc, Answered(d, resp, end), seen)
                     ELSE /\ sx' = ShellIdle
                          /\ d' = Answered(d, resp, end)
                          /\ cycle' = cyc
                          /\ done' = Returned("shell")
                          /\ xseen' = seen
                          /\ now' = now
       IN IF ~a.raised
          THEN next("completed", IF a.logged THEN {"error"} ELSE {})
          ELSE IF StopAfterAttempt(retries["shell"], sx.attempt)
               THEN next("exhausted", {"retry_error"})
               ELSE /\ sx' = [sx EXCEPT !.pc = "sleeping", !.attempt = @ + 1]
                    /\ d' = Answered(d, resp, "inflight")
                    /\ UNCHANGED <<now, log, cycle, xseen, done>>
    /\ UNCHANGED <<built, retries, jm, em, el, vm, jseen>>
    /\ UNCHANGED offstage

\* ShellExecutor.run, from the return of the sleep before a retry to the
\* POST of the next attempt of the same result.
ShellPostRetry ==
    /\ sx.pc = "sleeping"
    /\ sx' = [sx EXCEPT !.pc = "posting"]
    /\ d' = Posted(d, "shell",
                   Request(ResultUrl(sx.commands[sx.index]), sx.headers,
                           sx.payload))
    /\ UNCHANGED <<built, now, retries, jm, em, el, vm, log, cycle, jseen,
                   xseen, done>>
    /\ UNCHANGED offstage

Next ==
    \/ Tick
    \/ \E events \in PollEvents, entry \in JournalEntries,
          more \in 0..MaxBacklog : JournalRun(events, entry, more)
    \/ \E resp \in Responses : JournalResponse(resp)
    \/ JournalRetry
    \/ \E action \in SubscribeActions, rendered \in RenderedEvents,
          evtLogs \in ReadResults : EventCallback(action, rendered, evtLogs)
    \/ \E resp \in Responses : EventLogResponse(resp)
    \/ EventLogRetry
    \/ Subscribe
    \/ SubscribeWake
    \/ Stop
    \/ \E c \in Collections : VitalsRun(c.faults, c.host, c.denied)
    \/ \E resp \in Responses : VitalsResponse(resp)
    \/ ShellRun
    \/ \E resp \in PollResponses : ShellPollResponse(resp)
    \/ \E resp \in Responses : ShellPostResponse(resp)
    \/ ShellPostRetry

Spec == Init /\ [][Next]_vars

\* The event-log monitor alone, under the scheduling its code relies on: the
\* event loop returns from asyncio.sleep(1), and requests.post, called with
\* timeout=self._timeout, returns or raises.
InitEventLog == Init /\ built = {"eventlog"}

NextEventLog ==
    \/ Tick
    \/ Subscribe
    \/ SubscribeWake
    \/ Stop
    \/ \E action \in SubscribeActions, rendered \in RenderedEvents,
          evtLogs \in ReadResults : EventCallback(action, rendered, evtLogs)
    \/ \E resp \in Responses : EventLogResponse(resp)
    \/ EventLogRetry

FairEventLog ==
    /\ InitEventLog
    /\ [][NextEventLog]_vars
    /\ WF_vars(SubscribeWake)
    /\ WF_vars(\E resp \in Responses : EventLogResponse(resp))
    /\ WF_vars(EventLogRetry)

(* ------------------------------ scheduling ----------------------------- *)

\* The tasks of one agent process.  The module of the journal monitor and
\* the vitals monitor imports systemd, which is installed on Linux only, and
\* the event-log monitor needs win32evtlog (Windows): a process has the two
\* monitors of the first module or the event-log monitor, and the executor.
\* "callback" is the thread on which the event subscription calls
\* EventLogMonitor.event_callback; every other task is a coroutine of the
\* one event loop.
TaskSets ==
    {{"journal", "vitals", "shell"}, {"eventlog", "callback", "shell"}}

AllTasks == UNION TaskSets

OnLoop(t) == t # "callback"

\* The first call a task waits in.
FirstWait(t) ==
    CASE t = "journal" -> "journal.poll"
      [] t = "eventlog" -> "eventlog.sleep"
      [] t = "callback" -> "callback.event"
      [] t = "vitals" -> "vitals.timer"
      [] OTHER -> "shell.get"

\* The calls a task may wait in after it has returned from the call w, in
\* program order: JournaldMonitor.run polls the descriptor and then POSTs (or
\* returns and is called again), and before a POST is retried AsyncRetrying
\* awaits asyncio.sleep(0); VitalsMonitor.run is called on a timer, collects
\* and POSTs; ShellExecutor.run GETs, then runs and POSTs command after
\* command, with the same sleep before a retry; subscribe_system sleeps; the
\* callback POSTs the event it was called with, and its Retrying calls
\* time.sleep(0) before a retry.  An HTTP call of aiohttp has two awaits:
\* session.post() returns with the headers of the answer, and for an answer
\* that is not a 201 run() then awaits response.json(), where the task waits
\* again in the same call when the body comes after the headers (as poll()
\* does in its GET for the body of a 200).  A run() that an exception
\* leaves after the synchronous call (the result of a command does not
\* validate, a probe or has_command raises) makes no POST: its task waits
\* next where the next call of run() starts.
NextWaits(w) ==
    CASE w = "journal.poll" -> {"journal.poll", "journal.post"}
      [] w = "journal.post" -> {"journal.post", "journal.sleep", "journal.poll"}
      [] w = "journal.sleep" -> {"journal.post"}
      [] w = "eventlog.sleep" -> {"eventlog.sleep"}
      [] w = "callback.event" -> {"callback.event", "callback.post"}
      [] w = "callback.post" -> {"callback.sleep", "callback.event"}
      [] w = "callback.sleep" -> {"callback.post"}
      [] w = "vitals.timer" -> {"vitals.collect"}
      [] w = "vitals.collect" -> {"vitals.post", "vitals.timer"}
      [] w = "vitals.post" -> {"vitals.post", "vitals.timer"}
      [] w = "shell.get" -> {"shell.get", "shell.subprocess"}
      [] w = "shell.subprocess" -> {"shell.post", "shell.get"}
      [] w = "shell.post" -> {"shell.post", "shell.sleep", "shell.subprocess",
                              "shell.get"}
      [] w = "shell.sleep" -> {"shell.post"}
      [] OTHER -> {}

\* The calls that are made synchronously: select.poll().poll(),
\* subprocess.run(), the probes of collect_vitals, requests.post(), the
\* time.sleep of Retrying and the subscription's own wait.  Every other call
\* is awaited (aiohttp, asyncio.sleep).
Blocking(w) ==
    w \in {"journal.poll", "shell.subprocess", "vitals.collect",
           "callback.post", "callback.sleep", "callback.event"}

\* The waits for input or output: the journal's descriptor, the
\* subscription, the timers and the HTTP calls.
IOWaits ==
    {"journal.poll", "journal.post", "eventlog.sleep", "callback.event",
     "callback.post", "vitals.timer", "vitals.post", "shell.get", "shell.post"}

\* Every call a task may wait in: the waits for input or output, the run
\* of a command, the probes, and the sleep before a retry.
Waits ==
    IOWaits \cup {"shell.subprocess", "vitals.collect", "journal.sleep",
                  "callback.sleep", "shell.sleep"}

NewTask == [at |-> "start", st |-> "ready"]

InitTasks ==
    /\ built \in TaskSets
    /\ turn = "none"
    /\ task = [t \in built |-> NewTask]
    /\ conf = NewConfiguration
    /\ now = 0
    /\ retries = [q \in RetryingPaths |-> DefaultRetries]
    /\ jm = JournalIdle
    /\ em = EventLogIdle
    /\ el = Unsubscribed
    /\ vm = VitalsIdle
    /\ sx = ShellIdle
    /\ d = NoDelivery
    /\ log = {}
    /\ cycle = NoCycle
    /\ jseen = {}
    /\ xseen = {}
    /\ done = Returned("none")

\* The event loop resumes a task that is ready, when no coroutine holds its
\* thread; the subscription's thread runs the callback on its own.
TaskResume(t) ==
    /\ t \in built
    /\ task[t].st = "ready"
    /\ OnLoop(t) => turn = "none"
    /\ task' = [task EXCEPT ![t].st = "running"]
    /\ turn' = IF OnLoop(t) THEN t ELSE turn
    /\ UNCHANGED <<built, pipeline, conf>>

\* A running task makes its next call w.  An awaited call gives the thread
\* back to the event loop; a synchronous call keeps it.
TaskWait(t, w) ==
    /\ t \in built
    /\ task[t].st = "running"
    /\ w \in (IF task[t].at = "start" THEN {FirstWait(t)}
              ELSE NextWaits(task[t].at))
    /\ task' = [task EXCEPT ![t] = [at |-> w, st |-> "waiting"]]
    /\ turn' = IF OnLoop(t) /\ ~Blocking(w) THEN "none" ELSE turn
    /\ UNCHANGED <<built, pipeline, conf>>

\* What a task waits for happens: a synchronous call returns to the task,
\* which goes on; an awaited one makes the task ready for the event loop.
TaskWake(t) ==
    /\ t \in built
    /\ task[t].st = "waiting"
    /\ task' = [task EXCEPT
                  ![t].st = IF Blocking(task[t].at) THEN "running" ELSE "ready"]
    /\ UNCHANGED <<built, turn, pipeline, conf>>

NextTasks ==
    \/ \E t \in AllTasks : TaskResume(t)
    \/ \E t \in AllTasks, w \in Waits : TaskWait(t, w)
    \/ \E t \in AllTasks : TaskWake(t)

SpecTasks == InitTasks /\ [][NextTasks]_vars

(* ---------------------------- configuration ---------------------------- *)

InitConfiguration ==
    /\ built = {}
    /\ turn = "none"
    /\ task = <<>>
    /\ conf = NewConfiguration
    /\ now = 0
    /\ retries = [q \in RetryingPaths |-> DefaultRetries]
    /\ jm = JournalIdle
    /\ em = EventLogIdle
    /\ el = Unsubscribed
    /\ vm = VitalsIdle
    /\ sx = ShellIdle
    /\ d = NoDelivery
    /\ log = {}
    /\ cycle = NoCycle
    /\ jseen = {}
    /\ xseen = {}
    /\ done = Returned("none")

\* TomlConfiguration.load: the file's settings replace _data.
Load(tree) ==
    /\ conf' = [NewConfiguration EXCEPT !.loaded = TRUE, !.data = tree]
    /\ UNCHANGED <<built, pipeline, turn, task>>

\* has(key) is called on the loaded configuration.
Has(key) ==
    /\ conf.loaded
    /\ conf' = [conf EXCEPT
                  !.key = key,
                  !.has = [called |-> TRUE] @@ has(conf.data, key),
                  !.get = NotCalled]
    /\ UNCHANGED <<built, pipeline, turn, task>>

\* get(key) is called with the key has was last called with.
Get ==
    /\ conf.loaded
    /\ conf.has.called
    /\ ~conf.get.called
    /\ conf' = [conf EXCEPT
                  !.get = [called |-> TRUE] @@ get(conf.data, conf.key)]
    /\ UNCHANGED <<built, pipeline, turn, task>>

NextConfiguration ==
    \/ \E tree \in Trees : Load(tree)
    \/ \E key \in Keys : Has(key)
    \/ Get

SpecConfiguration == InitConfiguration /\ [][NextConfiguration]_vars

(* -------------------------------- claims ------------------------------- *)

\* A delivery has ended: its retry loop was left, one way or another.
Ended == d.end \in {"completed", "exhausted", "raised"}

\* The frame f of a retrying run() is inside a delivery: it waits for the
\* answer to a POST, or in the sleep before the next attempt.
Delivering(f) == f.pc \in {"posting", "sleeping"}

\* The last answer of the delivery was a failure: a status other than 201,
\* or no response.
LastFailed == d.last.status \notin {Created, -1}

MaxOf(a, b) == IF a >= b THEN a ELSE b

\* C1: in the retrying paths every answer that is not a 201, and every
\* attempt without an answer, is a failed attempt that is retried while
\* fewer than max_attempts attempts have been made: a delivery whose last
\* answer was a failure has not ended before its max_attempts-th POST, and
\* each answer belongs to exactly one POST (at most one POST is unanswered,
\* and none once the delivery has ended).
C1_FailureIsRetried ==
    d.path \in RetryingPaths =>
      /\ d.posts \in {d.responses, d.responses + 1}
      /\ Ended => d.posts = d.responses
      /\ (Ended /\ LastFailed) => d.posts >= retries[d.path]

\* C2: with max_attempts >= 1 and every POST answered 500, a retrying
\* delivery makes exactly max_attempts POSTs, never more, and ends with the
\* failure logged.
C2_AlwaysFailingExhausts ==
    (d.path \in RetryingPaths /\ retries[d.path] >= 1 /\ d.responses >= 1
       /\ d.all500) =>
      /\ d.posts <= retries[d.path]
      /\ Ended => (d.posts = retries[d.path] /\ log # {})

\* C3: when the first k-1 POSTs are answered 500 and the k-th 201, with
\* 1 <= k <= max_attempts, the delivery succeeds after exactly k POSTs: after
\* fewer than max_attempts answers, all of them 500, the delivery has not
\* ended (the next POST is in flight or about to be sent), and a 201 after
\* only 500s ends the delivery as a success with no POST after it.
C3_SucceedsOnKthAttempt ==
    d.path \in RetryingPaths =>
      /\ (d.responses >= 1 /\ d.all500 /\ d.responses < retries[d.path]) =>
           (d.end = "inflight" /\ d.posts \in {d.responses, d.responses + 1})
      /\ (d.prev500 /\ d.last.status = Created) =>
           (d.end = "completed" /\ d.posts = d.responses)

\* C4, as claimed: a delivery makes at most max_attempts POSTs (the default
\* ceiling in the vitals path, which has no ceiling of its own).
C4_AtMostMaxAttempts ==
    /\ d.path \in RetryingPaths => d.posts <= retries[d.path]
    /\ d.path = "vitals" => d.posts <= DefaultRetries

\* C4, amended: a delivery makes at most max(1, max_attempts) POSTs in the
\* retrying paths and at most one in the vitals path, and once it has ended
\* no operation is left waiting for an answer to a POST.
C4_BoundedAttempts ==
    /\ d.path \in RetryingPaths => d.posts <= MaxOf(1, retries[d.path])
    /\ d.path = "vitals" => d.posts <= 1
    /\ Ended => /\ ~Delivering(jm) /\ ~Delivering(em)
                /\ vm.pc # "posting" /\ ~Delivering(sx)

\* C4 witness: a retrying delivery that used up a ceiling of several
\* attempts.
C4_Witness ==
    /\ d.path \in RetryingPaths
    /\ d.end = "exhausted"
    /\ retries[d.path] = DefaultRetries
    /\ d.posts = DefaultRetries

\* C5: a delivery failure never leaves a run operation as an exception, and
\* a delivery that ended on a failure has logged it.
C5_DeliveryFailureNeverFatal ==
    /\ ~(done.result = "raised" /\ done.cause = "delivery")
    /\ (Ended /\ LastFailed) => log # {}

\* C6: an error response whose body is not JSON, or is JSON without a
\* 'detail' member, never raises out of the delivery.
C6_BadErrorBodyHandled ==
    (d.last.status \notin {Created, 0, -1}
       /\ d.last.body \in {"nodetail", "nonjson"}) => d.end # "raised"

\* C7: every POST carries the signature of exactly the bytes it sends, and
\* all the POSTs of one delivery are the same request.
C7_SignatureOverSentBytes ==
    /\ \A r \in d.sent : r.headers.Signature = sign(r.data)
    /\ d.posts >= 1 => Cardinality(d.sent) = 1

\* C7 witness: the result of a failed command has been POSTed again after a
\* failed attempt.
C7_Witness ==
    /\ d.path = "shell"
    /\ d.posts >= 2
    /\ \E r \in d.sent : r.data.exit_code = 2

\* C8: in one journal monitoring session a message is handed to delivery at
\* most once, and an empty message never.
C8_EachMessageEmittedOnce ==
    /\ done.op = "journal" => ~done.duplicate
    /\ Delivering(jm) => jm.message # ""

\* C9: execute returns a result for every command and every exit code, with
\* the observed exit code and start_date <= end_date.
C9_ExecuteAlwaysReturns ==
    /\ done.cause # "execute"
    /\ Delivering(sx) =>
         /\ sx.result.exit_code = cycle.proc.returncode
         /\ sx.result.start_date <= sx.result.end_date

\* C10: in a cycle in which a delivery was exhausted, every command poll
\* returned was executed and the delivery of its result attempted.
C10_FailedDeliveryDoesNotStopCycle ==
    (done.op = "shell" /\ done.result # "running"
       /\ \E i \in 1..Len(cycle.ends) : cycle.ends[i] = "exhausted") =>
      /\ Len(cycle.executed) = cycle.polled
      /\ Len(cycle.attempted) = cycle.polled

\* C11: when the GET of poll() is answered with a status that is not a
\* success (not 2xx), poll logs the failure and run() returns without an
\* exception, without executing a command and without sending a result.
C11_FailedPollIsEmpty ==
    (done.op = "shell" /\ cycle.status >= 1
       /\ cycle.status \notin 200..299) =>
      /\ done = Returned("shell")
      /\ "poll_failed" \in log
      /\ cycle.polled = 0
      /\ cycle.executed = <<>>
      /\ cycle.attempted = <<>>
      /\ d = NoDelivery
      /\ sx = ShellIdle

\* C11 witness: a poll answered 500 with commands in its body has returned.
C11_Witness ==
    /\ done = Returned("shell")
    /\ cycle.status = 500
    /\ cycle.offered >= 1

\* C12: a command the executor has made a result for is not executed a
\* second time (the service lists a command as pending until it has answered
\* 201 to a result for it), and every POST of a result goes to the URL of
\* the command it is the result of, all the POSTs of one delivery being the
\* same request.
C12_OneResultPerCommand ==
    /\ ~cycle.repeated
    /\ d.path = "shell" =>
         /\ Cardinality(d.sent) = 1
         /\ \A r \in d.sent :
              r.url = CommandUrl
                        \o ToString(cycle.attempted[Len(cycle.attempted)])
                        \o "/result/"

\* C13: while the executor waits for a command to end, every monitor that
\* is ready to go on can be resumed: the event loop's thread is free.
C13_CommandStallsOnlyExecutor ==
    \A t \in DOMAIN task :
      ("shell" \in DOMAIN task /\ t # "shell"
         /\ task["shell"] = [at |-> "shell.subprocess", st |-> "waiting"]
         /\ task[t].st = "ready" /\ OnLoop(t)) =>
        turn = "none"

\* C19: a task that waits for input or output does not hold the event
\* loop's thread: every such wait is a suspension point.
C19_EveryWaitSuspends ==
    \A t \in DOMAIN task :
      (task[t].st = "waiting" /\ task[t].at \in IOWaits) => turn # t


\* C14: a monitor leaves its cycle only after the stop signal.  The loop of
\* subscribe_system has returned only if stop() was called, whatever the
\* deliveries before it came to, and no call of JournaldMonitor.run or of
\* VitalsMonitor.run (one cycle of the journal monitor and of the vitals
\* timer, which have no loop or stop signal of their own) is left by an
\* exception, so the loop that calls them is not left either.
C14_StoppedOnlyBySignal ==
    /\ el.pc = "stopped" => el.stop
    /\ done.op \in {"journal", "vitals"} => done.result # "raised"


\* C20: the stop signal is read once per cycle and does not interrupt a
\* delivery.  The step in which stop() is called leaves the delivery in
\* progress as it is; the loop is left only in a step that reads _running
\* as false; a delivery that completes does so on a 201; after stop() a
\* delivery in flight runs to a 201 or to exhaustion, and the sleeping loop
\* reaches stopped.
C20_StopHonouredAtNextCheck ==
    /\ [][(el'.stop /\ ~el.stop) => (em' = em /\ d' = d /\ done' = done)]_vars
    /\ [][(el'.pc = "stopped" /\ el.pc # "stopped") => (~el.running /\ el.stop)]_vars
    /\ []((d.path = "eventlog" /\ d.end = "completed") => d.last.status = Created)
    /\ (el.stop /\ d.path = "eventlog" /\ d.end = "inflight")
          ~> (d.path = "eventlog" /\ d.end \in {"completed", "exhausted"})
    /\ (el.stop /\ el.pc = "sleeping") ~> (el.pc = "stopped")

\* stop() has been called while a delivery was in flight, the delivery has
\* since been retried and exhausted, and the loop has stopped.
C20_Witness ==
    /\ el.stop
    /\ el.pc = "stopped"
    /\ d.path = "eventlog"
    /\ d.end = "exhausted"
    /\ d.posts >= 2


\* C15: within one monitor the events are delivered in arrival order.  The
\* first POST of an event is sent only when the delivery of the event before
\* it is no longer in flight, and every later POST of a delivery resends the
\* request of its first POST: all POSTs of one event come before the first
\* POST of the next.
C15_DeliveredInArrivalOrder ==
    [][/\ (/\ d'.path \in {"journal", "eventlog"}
           /\ d' # d
           /\ d'.posts = 1
           /\ d'.responses = 0) => d.end # "inflight"
       /\ (d'.path \in {"journal", "eventlog"} /\ d'.posts > 1)
            => (d'.path = d.path /\ d'.sent = d.sent)]_vars

\* The journal monitor has sent the first POST of a second message, the
\* first message having been handed to delivery before.
C15_Witness ==
    /\ d.path = "journal"
    /\ d.posts = 1
    /\ d.end = "inflight"
    /\ jseen = {"a", "b"}


\* C16: collect_vitals never aborts because one probe fails.  A call of
\* VitalsMonitor.run is never left by an exception of the collection, and
\* what it sends holds every sub-category but the one whose probe failed.
C16_CollectNeverAborts ==
    /\ done.op = "vitals" => done.cause # "collect"
    /\ (d.path = "vitals" /\ d.posts >= 1) =>
         \A r \in d.sent :
            /\ \A i \in 1..Len(Probes) : Probes[i] \in DOMAIN r.data.vitals
            /\ \A i \in 1..Len(PackageCommands) :
                 LET key == PackageKey(PackageCommands[i])
                 IN key \in DOMAIN r.data.vitals
                      => r.data.vitals[key]
                           # Section(PackageError(PackageCommands[i]))


\* C17: to_log_event on a record of n fields gives exactly n properties, the
\* i-th named by the lower-cased name of the i-th field and valued by the
\* ISO-8601 text of a timestamp or the string conversion of anything else.
\* Stated of the payload the journal monitor sends for the entry it read,
\* field by field, and against the expected list for the entries written out
\* below.
C17_PropertiesFollowFields ==
    Delivering(jm) =>
      LET fields == jm.entry.fields
          props == jm.payload.properties
      IN /\ Len(props) = Len(fields)
         /\ \A i \in 1..Len(fields) :
              /\ props[i].name \in {"message", "priority", "_pid",
                                    "__realtime_timestamp"}
              /\ props[i].name = Lower(fields[i].name)
              /\ props[i].value =
                   (CASE fields[i].value.type = "datetime"
                           -> "1970-01-01T00:00:0" \o ToString(fields[i].value.n)
                      [] fields[i].value.type = "int"
                           -> ToString(fields[i].value.n)
                      [] OTHER -> fields[i].value.s)
         /\ fields = <<Fld("PRIORITY", IntValue(2)), Fld("MESSAGE", StrValue("b")),
                       Fld("__REALTIME_TIMESTAMP", DateValue(1))>>
              => props = <<[name |-> "priority", value |-> "2"],
                           [name |-> "message", value |-> "b"],
                           [name |-> "__realtime_timestamp",
                            value |-> "1970-01-01T00:00:01"]>>
         /\ fields = <<Fld("_PID", IntValue(7)), Fld("MESSAGE", StrValue("a"))>>
              => props = <<[name |-> "_pid", value |-> "7"],
                           [name |-> "message", value |-> "a"]>>

\* The journal monitor is sending the entry of three fields, whose names are
\* not in alphabetical order and whose last value is a timestamp.
C17_Witness ==
    /\ jm.pc = "posting"
    /\ Len(jm.entry.fields) = 3
    /\ jm.entry.fields[3].value.type = "datetime"
    /\ Len(jm.payload.properties) = 3


\* Every part of the key is present along the path: the tree is a table
\* that holds the first part, and the rest is present in the value there.
RECURSIVE Present(_, _)
Present(data, parts) ==
    \/ parts = <<>>
    \/ /\ data.type = "table"
       /\ Head(parts) \in DOMAIN data.items
       /\ Present(data.items[Head(parts)], Tail(parts))

\* C18: has(key) is true exactly when every part of the key is present along
\* the path, get(key) is None exactly when has(key) is false, and a present
\* value, falsy or not, is what get returns.  Neither call raises.
C18_AbsentSignalIsExact ==
    /\ conf.has.called =>
         /\ ~conf.has.raised
         /\ conf.has.value = Present(conf.data, Split(conf.key))
    /\ conf.get.called =>
         /\ ~conf.get.raised
         /\ conf.get.isNone = ~Present(conf.data, Split(conf.key))
         /\ (conf.has.value /\ ~conf.has.raised) => ~conf.get.isNone


\* C21: a wakeup of the journal monitor drains every entry that is available
\* at that moment: when run() has returned, none of the entries that were
\* readable at its wakeup is left unread.
C21_WakeupDrainsAll ==
    (done.op = "journal" /\ done.result = "returned") => done.unread = 0


\* C22: an entry that is None, has no MESSAGE, or has an empty MESSAGE is
\* passed over without effect.  When run() has read such an entry, nothing
\* was signed or sent for it (no delivery, no payload, no Signature header)
\* and the dedupe set is as run() started with it; and no entry whose
\* MESSAGE is in the dedupe set is ever being sent.
C22_SkippedEntryHasNoEffect ==
    /\ (/\ done.op = "journal"
        /\ done.read = 1
        /\ \/ jm.entry.isNone
           \/ \A i \in 1..Len(jm.entry.fields) :
                 jm.entry.fields[i].name # "MESSAGE"
           \/ \E i \in 1..Len(jm.entry.fields) :
                 /\ jm.entry.fields[i].name = "MESSAGE"
                 /\ jm.entry.fields[i].value.s = "")
         => /\ done.result = "returned"
            /\ d = NoDelivery
            /\ jm.pc = "idle"
            /\ jm.payload = NoPayload
            /\ jm.headers = BaseHeaders
            /\ done.dedupe = {}
    /\ Delivering(jm) => jm.message \notin jm.dedupe

\* run() has read an entry whose MESSAGE is empty, and has returned.
C22_Witness ==
    /\ done.op = "journal"
    /\ done.result = "returned"
    /\ done.read = 1
    /\ jm.entry.fields = <<Fld("MESSAGE", StrValue(""))>>


\* C25: the MESSAGE of a processed entry enters the dedupe set only after its
\* delivery has ended, and whatever the outcome.  While the delivery is in
\* flight the message is not in the set; once run() has returned from a
\* delivery, completed or exhausted, the set holds the message.
C25_DedupeAfterDelivery ==
    /\ (Delivering(jm) /\ d.end = "inflight") => jm.message \notin jm.dedupe
    /\ (/\ done.op = "journal"
        /\ done.result = "returned"
        /\ d.path = "journal"
        /\ d.end \in {"completed", "exhausted"}) => jm.message \in done.dedupe

\* The dedupe set holds a message the service never accepted: every attempt
\* of its delivery failed.
C25_Witness ==
    /\ done.op = "journal"
    /\ done.result = "returned"
    /\ d.path = "journal"
    /\ d.end = "exhausted"
    /\ d.posts >= 2
    /\ jm.message \in done.dedupe

\* C26: every call of run() starts with an empty dedupe set and reads at
\* most one entry, so an entry whose MESSAGE an earlier call has delivered
\* is delivered again.
C26_DedupePerInvocation ==
    /\ Delivering(jm) => jm.dedupe = {}
    /\ done.op = "journal" =>
         /\ done.read <= 1
         /\ done.result = "returned" => Cardinality(done.dedupe) <= 1
    /\ (/\ done.op = "journal"
        /\ done.read = 1
        /\ ~jm.entry.isNone
        /\ \E i \in 1..Len(jm.entry.fields) :
              /\ jm.entry.fields[i].name = "MESSAGE"
              /\ jm.entry.fields[i].value.s \in jseen \ {""})
         => (d.path = "journal" /\ d.posts >= 1)

\* A second call of run() is sending an entry whose MESSAGE an earlier call
\* has sent.
C26_Witness ==
    /\ done.op = "journal"
    /\ done.duplicate
    /\ d.path = "journal"
    /\ d.posts >= 1
    /\ jm.message \in jseen


\* The disk section di is what the claim says of a collection in which the
\* partitions of den were denied: one entry for every other partition, in
\* partition order, none for a denied one, and the I/O counters.
OmitsDenied(di, den) ==
    LET pos(m) == CHOOSE i \in 1..Len(Partitions) : Partitions[i] = m
    IN /\ di.disk_io = "collected"
       /\ \A i \in 1..Len(Partitions) :
            (Partitions[i] \notin den)
               <=> (\E k \in 1..Len(di.partitions) :
                       di.partitions[k].mountpoint = Partitions[i])
       /\ \A k \in 1..Len(di.partitions) :
            /\ di.partitions[k].usage = "collected"
            /\ \A j \in 1..Len(di.partitions) :
                 k < j => pos(di.partitions[k].mountpoint)
                            < pos(di.partitions[j].mountpoint)

\* C23: whatever partitions are denied, get_disk_info returns one entry for
\* every other partition, in partition order, none for a denied one, and the
\* I/O counters.  Stated of get_disk_info for every set of denied
\* partitions, and of the disk_info section of the vitals being sent.
C23_DeniedPartitionsOmitted ==
    /\ \A den \in DeniedSets :
         OmitsDenied(get_disk_info(Partitions, den), den)
    /\ vm.pc = "posting" =>
         OmitsDenied(vm.payload.vitals["disk_info"], vm.denied)

\* The vitals being sent were collected with the second of three partitions
\* denied: the section holds the first and the third.
C23_Witness ==
    /\ vm.pc = "posting"
    /\ vm.denied = {"/boot"}
    /\ Len(vm.payload.vitals["disk_info"].partitions) = 2
    /\ vm.payload.vitals["disk_info"].partitions[2].mountpoint = "/data"


\* C24: only the journal monitor dedupes.  An event-log event whose message
\* text was sent before, and a vitals snapshot equal to the one before it,
\* are sent all the same: the call that meets the repetition makes a POST.
C24_OnlyJournalDedupes ==
    (done.op \in {"eventlog", "vitals"} /\ done.duplicate) =>
       /\ d.path = done.op
       /\ d.posts >= 1
       /\ d.sent # {}

\* The event-log monitor is sending a second event with the message text of
\* an event it has sent before.
C24_Witness ==
    /\ done.op = "eventlog"
    /\ done.duplicate
    /\ d.path = "eventlog"
    /\ d.posts >= 1
    /\ jseen = {"disk failure"}


\* C28: _running is true from construction until the first stop() and false
\* ever after.  The flag is true exactly while stop() has not been called;
\* no step sets it back to true (a second stop() changes nothing); and a
\* subscribe_system called after stop() returns without having slept.
C28_RunningFlagOnlyFalls ==
    /\ [](el.running = ~el.stop)
    /\ [][~el.running => ~el'.running]_vars
    /\ [][(el.stop /\ el'.stop) => el' \in {el, [el EXCEPT !.pc = "stopped"]}]_vars
    /\ [][(el.pc = "unsubscribed" /\ ~el.running /\ el'.pc # el.pc)
            => (el'.pc = "stopped" /\ ~el'.slept)]_vars

\* stop() was called before subscribe_system, which has returned without
\* sleeping.
C28_Witness ==
    /\ el.pc = "stopped"
    /\ el.stop
    /\ ~el.running
    /\ ~el.slept


\* C27: the executor handles the polled commands in the order of the poll,
\* one at a time, with one poll per cycle.  While a result is being sent,
\* the commands executed so far are the first sx.index commands of the poll,
\* in its order, and the delivery of every one before the current has
\* ended, by a 201 or by the exhaustion of its attempts; a cycle polls only
\* at its start.
C27_CommandsInPollOrder ==
    /\ [](Delivering(sx) =>
            /\ Len(cycle.executed) = sx.index
            /\ \A k \in 1..sx.index : cycle.executed[k] = sx.commands[k].id
            /\ cycle.attempted = cycle.executed
            /\ Len(cycle.ends) = sx.index - 1
            /\ \A k \in 1..Len(cycle.ends) :
                  cycle.ends[k] \in {"completed", "exhausted"}
            /\ d.end = "inflight"
            /\ \A r \in d.sent : r.url = ResultUrl(sx.commands[sx.index]))
    /\ [][sx'.pc = "polling" => sx.pc \in {"idle", "polling"}]_vars
    /\ [][(Delivering(sx) /\ Delivering(sx'))
            => (sx'.commands = sx.commands /\ sx'.index \in {sx.index, sx.index + 1})]_vars

\* C29: with a ceiling of 0 a retrying delivery still makes exactly one POST,
\* and under a transport that always fails (no POST is answered 201, whether
\* by another status or by no response) a delivery makes exactly
\* max(1, max_attempts) POSTs: it has not ended before that many failures,
\* and once it has ended, its last answer a failure, it has made that many
\* POSTs and got as many answers.
C29_PostsUnderFailingTransport ==
    d.path \in RetryingPaths =>
      /\ (retries[d.path] = 0 /\ d.posts >= 1) => d.posts = 1
      /\ (Ended /\ LastFailed) =>
           /\ d.posts = MaxOf(1, retries[d.path])
           /\ d.responses = d.posts
      /\ (d.end = "inflight" /\ d.responses >= 1) =>
           d.responses < MaxOf(1, retries[d.path])

====
